---- MODULE Spec2Model ----
(***************************************************************************)
(* Model of debugger.py: one run of run_debugger(mode), with the two       *)
(* pexpect handles (gdb, qemu), the handshake, the kernel and user capture *)
(* state machines, get_gemini_analysis and the cleanup phase.              *)
(*                                                                         *)
(* A program position (pc) names the wait (expect / expect_exact) or step  *)
(* that is about to run.  One action per position: it performs the wait,   *)
(* whose outcome is chosen by the environment (a matched pattern index,    *)
(* pexpect.TIMEOUT or pexpect.EOF), and then all the code up to the next   *)
(* wait, the exception handler that an exception lands in included.        *)
(* Text is modelled as a sequence of lines.                                *)
(*                                                                         *)
(* The output of gdb that pexpect has not consumed is the sequence out of  *)
(* chunks: each chunk is some text ended by a mark, the piece of output    *)
(* that the patterns of the program are written for (the prompt, a         *)
(* question, a notification).  gdb emits the chunks that answer a line     *)
(* when the line is sent; a wait matches the first chunk whose mark is     *)
(* one of its patterns and consumes the stream up to it.  A wait may time  *)
(* out although such a chunk is in out: the output then arrived after the  *)
(* timeout and is still unconsumed when the program goes on.               *)
(***************************************************************************)
EXTENDS Integers, Sequences, FiniteSets, TLC

VARIABLES
    mode,         \* argument of run_debugger: "kernel" or "user"
    pc,           \* position in run_debugger and its callees
    gdb,          \* the debugger handle: "None", "alive", "dead"
    qemu,         \* the emulator handle: "None", "alive", "dead"
    reads,        \* number of expect calls issued on each stream
    closes,       \* number of close() calls issued on each handle
    sent,         \* lines and bytes written to gdb, in order
    qemuSent,     \* lines written to qemu, in order
    shellReady,   \* the shell prompt of the emulator has been matched
    interrupted,  \* Ctrl+C has been sent to gdb (user mode)
    state,        \* the phase the capture code has reported (its prints)
    ev,           \* captured text, by the name of the Python variable
    debug_data,   \* the evidence document handed to get_gemini_analysis
    calls,        \* number of get_gemini_analysis calls
    attempt,      \* loop variable of the retry loop
    attempts,     \* requests.post calls issued in the current call
    delays,       \* time.sleep calls of the current call, in order
    analysis,     \* value returned by get_gemini_analysis
    patchSaved,   \* the patch file has been written
    raised,       \* exception that reached a handler, and which handler
    report,       \* streams whose last output a handler printed
    i,            \* loop variable of the confirmation loop (user mode)
    log,          \* history: the outcomes of the waits, by position
    last,         \* history: outcome of the latest request of the call
    out,          \* output of gdb that no wait has consumed yet
    dbg           \* what gdb is doing: "off", "idle", "running", a question

vars == <<mode, pc, gdb, qemu, reads, closes, sent, qemuSent, shellReady,
          interrupted, state, ev, debug_data, calls, attempt, attempts,
          delays, analysis, patchSaved, raised, report, i, log, last,
          out, dbg>>

apiVars == <<calls, attempt, attempts, delays, analysis, patchSaved, last>>
evVars  == <<ev, debug_data>>
ioVars  == <<sent, qemuSent>>
gdbVars == <<out, dbg>>

----------------------------------------------------------------------------
(* Program constants *)

\* Variant: one iteration too many (range(max_retries + 1)).
max_retries_6 == 5 + 1

max_retries == 5
GDB_PORT == 26000

Modes == {"kernel", "user"}

EmptyEv == [x \in {} |-> <<>>]
NoAnalysis == [kind |-> "None", keys |-> {}, msg |-> <<>>]

\* The pieces of gdb output that the patterns of the program match.
Prompt     == "(gdb)"
PendingQ   == "Breakpoint pending on future shared library load? (y or [n])"
Banner     == "Remote debugging using localhost"
Refused    == "Connection refused"
Continuing == "Continuing."
HitVector  == "Breakpoint 1, vector14 () at vectors.S:56"
HitThread  == "Thread 1 hit Breakpoint 1"
FileQ      == "Are you sure you want to change the file"
LoadQ      == "Load new symbol table from"
QuitQ      == "Quit anyway? (y or n)"

AttachCmd == "target remote localhost:" \o ToString(GDB_PORT)

----------------------------------------------------------------------------
(* pexpect *)

\* timeout=None: the wait has no time limit.
NoLimit == 0 - 1

\* Variant: gdb is spawned with timeout=None, as qemu is.
SpawnTimeout_NoLimit == [gdb |-> NoLimit, qemu |-> NoLimit]

\* The timeout given to pexpect.spawn, which a wait without a timeout
\* argument uses.
SpawnTimeout == [gdb |-> 60, qemu |-> NoLimit]

\* The timeout argument of the waits that pass one, by position.
Explicit ==
    [hs_first |-> 10, hs_attach |-> 10, k_break |-> 10, k_shell |-> 60,
     k_fault |-> 20, k_prompt |-> 10, k_bt |-> 10, k_regs |-> 10,
     k_frame |-> 5, k_symbol |-> 5, k_list |-> 5, k_disas |-> 5,
     k_frame0 |-> 5, u_shell |-> 60, u_begin |-> 5, u_end |-> 2,
     u_int |-> 3, u_file |-> 3, u_sym |-> 2, u_list |-> 5, u_disas |-> 5,
     u_symbol |-> 5, cleanup |-> 2]

\* The positions that are waits, and the stream each of them reads.
WaitPcs ==
    DOMAIN Explicit \cup {"hs_pending", "hs_attached", "hs_pagination",
                          "hs_height", "k_continuing", "u_continuing"}
StreamOf(p) ==
    IF p \in {"k_shell", "u_shell", "u_begin", "u_end"} THEN "qemu" ELSE "gdb"

\* The time limit of the wait at position p.
Effective(p) ==
    IF p \in DOMAIN Explicit THEN Explicit[p] ELSE SpawnTimeout[StreamOf(p)]

\* requests.post(..., timeout=30)
post_timeout == 30

\* Outcomes of one expect call on a handle: a pattern matches, the timeout
\* expires when the wait has one, or the stream is closed.  A dead child
\* only yields EOF.
Outcomes(h) ==
    IF h = "alive"
      THEN {"match", "EOF"}
               \cup (IF Effective(pc) # NoLimit THEN {"TIMEOUT"} ELSE {})
      ELSE {"EOF"}

\* State of a handle after an expect call with outcome o: EOF means the
\* child has exited, so that isalive() is False from then on.
AfterRead(h, o) == IF o = "EOF" THEN "dead" ELSE h

CountRead(s) == [reads EXCEPT ![s] = @ + 1]

\* str.strip() of a text: leading and trailing blank lines go, nothing else.
RECURSIVE StripHead(_)
StripHead(t) == IF t # <<>> /\ Head(t) = "" THEN StripHead(Tail(t)) ELSE t
RECURSIVE StripTail(_)
StripTail(t) ==
    IF t # <<>> /\ t[Len(t)] = "" THEN StripTail(SubSeq(t, 1, Len(t) - 1))
    ELSE t
strip(t) == StripTail(StripHead(t))

\* "\n".join([line for line in lines if line.strip()
\*            and not line.strip() == cmd]).strip()
FilterEcho(t, cmd) == strip(SelectSeq(t, LAMBDA l : l # "" /\ l # cmd))

\* A piece of output: text, then the mark that ends it.
Chunk(text, mark) == [text |-> text, mark |-> mark]

\* A list of patterns is a sequence of sets of marks, one set per pattern.
\* Position in the stream s of the first chunk that a pattern of ps
\* matches, 0 when there is none.
Found(s, ps) ==
    LET hits == {k \in 1..Len(s) : \E j \in 1..Len(ps) : s[k].mark \in ps[j]}
    IN  IF hits = {} THEN 0
        ELSE CHOOSE k \in hits : \A h \in hits : k <= h

\* The index that expect returns for the mark m: the first pattern of the
\* list that matches it.
IndexOf(ps, m) ==
    (CHOOSE j \in 1..Len(ps) :
        m \in ps[j] /\ \A h \in 1..(j - 1) : m \notin ps[h]) - 1

\* gdb.before after a match at position k of s: all that precedes the
\* matched mark.
RECURSIVE Before(_, _)
Before(s, k) ==
    IF k = 1 THEN s[1].text
    ELSE s[1].text \o <<s[1].mark>> \o Before(Tail(s), k - 1)

\* The stream after a match at position k.
Rest(s, k) == SubSeq(s, k + 1, Len(s))

\* Outcomes of an expect call on gdb with the patterns ps, the stream being
\* s: a match needs a chunk that a pattern matches.
GdbOutcomes(s, ps) ==
    IF gdb = "alive"
      THEN (IF Found(s, ps) # 0 THEN {"match"} ELSE {})
               \cup (IF Effective(pc) # NoLimit THEN {"TIMEOUT"} ELSE {})
               \cup {"EOF"}
      ELSE {"EOF"}

----------------------------------------------------------------------------
(* gdb, as the program drives it *)

\* What gdb.before can hold when the prompt ending the response to cmd is
\* matched: the echoed command line followed by output, or the echo alone.
Responses(cmd) == {<<cmd, "output">>, <<cmd>>}

\* The response to 'info frame 1': with or without the saved rip.
FrameResponses ==
    Responses("info frame 1")
        \cup {<<"info frame 1", "saved rip = 0x80105f2e">>}

Reply(emit, to) == [emit |-> emit, to |-> to]

\* What gdb prints when it starts: its prompt, the question about a
\* pending breakpoint, or a prompt below a text that mentions one.
Startup ==
    {Reply(<<Chunk(<<"GNU gdb">>, Prompt)>>, "idle"),
     Reply(<<Chunk(<<"GNU gdb">>, PendingQ)>>, "pending"),
     Reply(<<Chunk(<<"GNU gdb", "Breakpoint pending">>, Prompt)>>, "idle")}

\* What gdb in state st emits for the line (or byte) cmd, and its state
\* afterwards.  A question is asked again until it is answered with y; a
\* running target is stopped by Ctrl+C only; 'file' asks two questions,
\* one or none; 'q' asks for a confirmation or exits at once.
Replies(st, cmd) ==
    CASE st = "pending" ->
           IF cmd = "y" THEN {Reply(<<Chunk(<<cmd>>, Prompt)>>, "idle")}
           ELSE {Reply(<<Chunk(<<cmd, "Please answer y or [n].">>, PendingQ)>>,
                       "pending")}
      [] st = "askFile" ->
           IF cmd = "y" THEN {Reply(<<Chunk(<<cmd>>, LoadQ)>>, "askLoad")}
           ELSE {Reply(<<Chunk(<<cmd, "Please answer y or n.">>, FileQ)>>,
                       "askFile")}
      [] st = "askLoad" ->
           IF cmd = "y"
             THEN {Reply(<<Chunk(<<cmd, "Reading symbols from _user_crash...">>,
                                 Prompt)>>, "idle")}
             ELSE {Reply(<<Chunk(<<cmd, "Please answer y or n.">>, LoadQ)>>,
                         "askLoad")}
      [] st = "running" ->
           IF cmd = "\\x03"
             THEN {Reply(<<Chunk(<<"Program received signal SIGINT">>,
                                 Prompt)>>, "idle")}
             ELSE IF cmd = "q"
                    THEN {Reply(<<>>, "running"),
                          Reply(<<Chunk(<<cmd>>, QuitQ)>>, "quitting")}
                    ELSE {Reply(<<>>, "running")}
      [] st = "idle" ->
           CASE cmd = AttachCmd ->
                  {Reply(<<Chunk(<<cmd>>, Banner),
                           Chunk(<<"0x000000000000fff0 in ?? ()">>, Prompt)>>,
                         "idle"),
                   Reply(<<Chunk(<<cmd, "0x000000000000fff0 in ?? ()">>,
                                 Prompt)>>, "idle"),
                   Reply(<<Chunk(<<cmd>>, Refused), Chunk(<<>>, Prompt)>>,
                         "idle")}
             [] cmd = "c" -> {Reply(<<Chunk(<<cmd>>, Continuing)>>, "running")}
             [] cmd = "file _user_crash" ->
                  {Reply(<<Chunk(<<cmd>>, FileQ)>>, "askFile"),
                   Reply(<<Chunk(<<cmd>>, LoadQ)>>, "askLoad"),
                   Reply(<<Chunk(<<cmd, "Reading symbols from _user_crash...">>,
                                 Prompt)>>, "idle")}
             [] cmd = "q" ->
                  {Reply(<<>>, "exited"),
                   Reply(<<Chunk(<<cmd>>, QuitQ)>>, "quitting")}
             [] cmd = "info frame 1" ->
                  {Reply(<<Chunk(r, Prompt)>>, "idle") : r \in FrameResponses}
             [] OTHER ->
                  {Reply(<<Chunk(r, Prompt)>>, "idle") : r \in Responses(cmd)}
      [] OTHER -> {Reply(<<>>, st)}

\* gdb.sendline(cmd) or gdb.send(cmd), the stream being rest before it: the
\* line is written and gdb, when it is alive, emits what answers it.
SendTo(rest, cmd) ==
    /\ sent' = Append(sent, cmd)
    /\ \E r \in Replies(IF gdb' = "alive" THEN dbg ELSE "exited", cmd) :
         /\ out' = rest \o r.emit
         /\ dbg' = r.to

----------------------------------------------------------------------------
(* run_debugger: exception handlers *)

\* The three except clauses of run_debugger, which lead to the finally
\* clause: the EOF clause prints gdb.before, the TIMEOUT clause prints
\* gdb.before and qemu.before, the Exception clause prints the traceback.
Handlers(kind) ==
    /\ raised' = [kind |-> kind, by |-> "run_debugger"]
    /\ report' = CASE kind = "EOF" ->
                        IF gdb' # "None" THEN {"gdb"} ELSE {}
                   [] kind = "TIMEOUT" ->
                        (IF gdb' # "None" THEN {"gdb"} ELSE {}) \cup
                        (IF qemu' # "None" THEN {"qemu"} ELSE {})
                   [] OTHER -> {}
    /\ pc' = "cleanup"

NoRaise == UNCHANGED <<raised, report>>

\* One expect call on gdb with outcome o; tag is what the history keeps of
\* a match next to the outcome.
GdbWaitAt(o, tag) ==
    /\ o \in Outcomes(gdb)
    /\ gdb' = AfterRead(gdb, o)
    /\ reads' = CountRead("gdb")
    /\ log' = log \cup {<<pc, o>>, <<pc, tag>>}

\* One expect call on gdb with outcome o.
GdbWait(o) == GdbWaitAt(o, o)

\* One expect call on qemu with outcome o.
QemuWait(o) ==
    /\ o \in Outcomes(qemu)
    /\ qemu' = AfterRead(qemu, o)
    /\ reads' = CountRead("qemu")
    /\ log' = log \cup {<<pc, o>>}

----------------------------------------------------------------------------
(* run_debugger: build, spawn and handshake *)

Init ==
    /\ mode \in Modes
    /\ pc = "build"
    /\ gdb = "None"
    /\ qemu = "None"
    /\ reads = [gdb |-> 0, qemu |-> 0]
    /\ closes = [gdb |-> 0, qemu |-> 0]
    /\ sent = <<>>
    /\ qemuSent = <<>>
    /\ shellReady = FALSE
    /\ interrupted = FALSE
    /\ state = "Init"
    /\ ev = EmptyEv
    /\ debug_data = <<>>
    /\ calls = 0
    /\ attempt = 0
    /\ attempts = 0
    /\ delays = <<>>
    /\ analysis = NoAnalysis
    /\ patchSaved = FALSE
    /\ raised = [kind |-> "none", by |-> "none"]
    /\ report = {}
    /\ i = 0
    /\ log = {}
    /\ last = "none"
    /\ out = <<>>
    /\ dbg = "off"

\* Steps 1 and 2: pkill, make; a failed build returns before any spawn.
Build ==
    /\ pc = "build"
    /\ \E returncode \in {0, 1} :
         pc' = IF returncode # 0 THEN "returned" ELSE "spawn_qemu"
    /\ UNCHANGED <<mode, gdb, qemu, reads, closes, ioVars, shellReady,
                   interrupted, state, evVars, apiVars, raised, report, i,
                   log, gdbVars>>

\* Step 3: pexpect.spawn(qemu_cmd), outside the try block: an exception of
\* spawn leaves run_debugger.
SpawnQemu ==
    /\ pc = "spawn_qemu"
    /\ \/ /\ qemu' = "alive"
          /\ pc' = "spawn_gdb"
          /\ UNCHANGED raised
       \/ /\ raised' = [kind |-> "Exception", by |-> "uncaught"]
          /\ pc' = "returned"
          /\ UNCHANGED qemu
    /\ UNCHANGED <<mode, gdb, reads, closes, ioVars, shellReady, interrupted,
                   state, evVars, apiVars, report, i, log, gdbVars>>

\* Step 4: pexpect.spawn(gdb), first statement of the try block.
SpawnGdb ==
    /\ pc = "spawn_gdb"
    /\ UNCHANGED <<mode, qemu, reads, closes, ioVars, shellReady, interrupted,
                   state, evVars, apiVars, i, log>>
    /\ \/ /\ gdb' = "alive"
          /\ \E r \in Startup : out' = r.emit /\ dbg' = r.to
          /\ pc' = "hs_first"
          /\ NoRaise
       \/ /\ gdb' = "None"
          /\ UNCHANGED gdbVars
          /\ Handlers("Exception")

\* 'Breakpoint pending' in gdb.before
HoldsPending(t) == \E k \in DOMAIN t : t[k] \in {"Breakpoint pending", PendingQ}

\* gdb.expect(prompt | pending question, timeout=10); the answer 'y' is
\* sent when the text before the match holds 'Breakpoint pending'.
HsFirst ==
    /\ pc = "hs_first"
    /\ UNCHANGED <<mode, qemu, closes, qemuSent, shellReady, interrupted,
                   state, evVars, apiVars, i>>
    /\ LET ps == <<{Prompt, PendingQ}>>
           k == Found(out, ps)
       IN  \E o \in GdbOutcomes(out, ps) :
             /\ GdbWaitAt(o, IF o = "match" THEN out[k].mark ELSE o)
             /\ IF o # "match"
                   THEN /\ UNCHANGED <<sent, gdbVars>>
                        /\ Handlers(o)
                   ELSE /\ NoRaise
                        /\ IF HoldsPending(Before(out, k))
                              THEN /\ SendTo(Rest(out, k), "y")
                                   /\ pc' = "hs_pending"
                              ELSE /\ SendTo(Rest(out, k), AttachCmd)
                                   /\ pc' = "hs_attach"

\* A wait for the gdb prompt whose TIMEOUT and EOF propagate to the handlers
\* of run_debugger; on a match, cmd is sent and control moves to next.
PromptThenSend(here, cmd, next) ==
    /\ pc = here
    /\ UNCHANGED <<mode, qemu, closes, qemuSent, shellReady, interrupted,
                   evVars, apiVars, i>>
    /\ LET ps == <<{Prompt}>>
           k == Found(out, ps)
       IN  \E o \in GdbOutcomes(out, ps) :
             /\ GdbWait(o)
             /\ IF o # "match"
                   THEN /\ UNCHANGED <<sent, gdbVars>>
                        /\ Handlers(o)
                   ELSE /\ NoRaise
                        /\ SendTo(Rest(out, k), cmd)
                        /\ pc' = next

\* gdb.expect_exact("(gdb)") after the answer 'y', then the attach command.
HsPending ==
    /\ PromptThenSend("hs_pending", AttachCmd, "hs_attach")
    /\ UNCHANGED state

\* Variant: the refusal is not tested after the wait.
HsAttach_NoRefusalTest ==
    /\ pc = "hs_attach"
    /\ UNCHANGED <<mode, qemu, closes, ioVars, shellReady, interrupted, state,
                   evVars, apiVars, i, dbg>>
    /\ LET ps == <<{Banner}, {Prompt}, {Refused}>>
           k == Found(out, ps)
       IN  \E o \in GdbOutcomes(out, ps) :
             /\ GdbWaitAt(o, IF o = "match" THEN out[k].mark ELSE o)
             /\ IF o # "match"
                   THEN /\ UNCHANGED out
                        /\ Handlers(o)
                   ELSE /\ out' = Rest(out, k)
                        /\ NoRaise
                        /\ pc' = "hs_attached"

\* gdb.expect(connection_patterns, timeout=10), then the test of
\* "Connection refused" in gdb.before or in gdb.after.
HsAttach ==
    /\ pc = "hs_attach"
    /\ UNCHANGED <<mode, qemu, closes, ioVars, shellReady, interrupted, state,
                   evVars, apiVars, i, dbg>>
    /\ LET ps == <<{Banner}, {Prompt}, {Refused}>>
           k == Found(out, ps)
       IN  \E o \in GdbOutcomes(out, ps) :
             /\ GdbWaitAt(o, IF o = "match" THEN out[k].mark ELSE o)
             /\ IF o # "match"
                   THEN /\ UNCHANGED out
                        /\ Handlers(o)
                   ELSE /\ out' = Rest(out, k)
                        /\ IF \/ Refused \in {Before(out, k)[n] :
                                               n \in DOMAIN Before(out, k)}
                              \/ out[k].mark = Refused
                              THEN Handlers("Exception")
                              ELSE /\ NoRaise
                                   /\ pc' = "hs_attached"

\* gdb.expect_exact("(gdb)") after the attach wait, then 'set pagination off'.
HsAttached ==
    /\ PromptThenSend("hs_attached", "set pagination off", "hs_pagination")
    /\ UNCHANGED state

HsPagination ==
    /\ PromptThenSend("hs_pagination", "set height 0", "hs_height")
    /\ UNCHANGED state

\* gdb.expect_exact("(gdb)") after 'set height 0', then the routing on mode
\* and the first command of the selected capture function.
HsHeight ==
    /\ IF mode = "kernel"
          THEN PromptThenSend("hs_height", "break vectors.S:56", "k_break")
          ELSE PromptThenSend("hs_height", "c", "u_continuing")
    /\ UNCHANGED state

----------------------------------------------------------------------------
(* run_kernel_debugger *)

\* gdb.expect_exact("(gdb)", timeout=10) after 'break vectors.S:56', then 'c'.
KBreak ==
    /\ PromptThenSend("k_break", "c", "k_continuing")
    /\ state' = IF pc' = "k_continuing" THEN "BreakpointArmed" ELSE state

\* gdb.expect_exact("Continuing."): the target runs.
KContinuing ==
    /\ pc = "k_continuing"
    /\ UNCHANGED <<mode, qemu, closes, ioVars, shellReady, interrupted,
                   evVars, apiVars, i, dbg>>
    /\ LET ps == <<{Continuing}>>
           k == Found(out, ps)
       IN  \E o \in GdbOutcomes(out, ps) :
             /\ GdbWait(o)
             /\ IF o # "match"
                   THEN /\ UNCHANGED <<state, out>>
                        /\ Handlers(o)
                   ELSE /\ NoRaise
                        /\ out' = Rest(out, k)
                        /\ state' = "Running"
                        /\ pc' = "k_shell"

\* What gdb emits once trap_test runs in the guest: the notification of the
\* breakpoint, in one of its two forms, and the prompt; or nothing, when the
\* fault does not happen.
FaultReplies ==
    {Reply(<<Chunk(<<>>, HitVector), Chunk(<<"56  vectors.S">>, Prompt)>>,
           "idle"),
     Reply(<<Chunk(<<>>, HitThread), Chunk(<<"56  vectors.S">>, Prompt)>>,
           "idle"),
     Reply(<<>>, "running")}

\* qemu.expect(r"\$ ", timeout=60), then qemu.sendline("trap_test").
KShell ==
    /\ pc = "k_shell"
    /\ UNCHANGED <<mode, gdb, closes, sent, interrupted, state, evVars,
                   apiVars, i>>
    /\ \E o \in Outcomes(qemu) :
         /\ QemuWait(o)
         /\ IF o # "match"
               THEN /\ UNCHANGED <<shellReady, qemuSent, gdbVars>>
                    /\ Handlers(o)
               ELSE /\ NoRaise
                    /\ shellReady' = TRUE
                    /\ qemuSent' = Append(qemuSent, "trap_test")
                    /\ \E r \in FaultReplies :
                         out' = out \o r.emit /\ dbg' = r.to
                    /\ pc' = "k_fault"

\* Variant: index 2 prints the warning and does not raise.
KFault_NoRaise ==
    /\ pc = "k_fault"
    /\ UNCHANGED <<mode, qemu, closes, ioVars, shellReady, interrupted,
                   evVars, apiVars, i, dbg>>
    /\ LET ps == <<{HitVector}, {HitThread}>>
           k == Found(out, ps)
       IN  \E o \in GdbOutcomes(out, ps) :
             /\ GdbWait(o)
             /\ CASE o = "match" ->
                       /\ NoRaise
                       /\ out' = Rest(out, k)
                       /\ state' = "FaultHit"
                       /\ pc' = "k_prompt"
                  [] o = "TIMEOUT" ->
                       /\ state' = "BreakpointNotHit"
                       /\ UNCHANGED <<raised, out>>
                       /\ report' = {"gdb"}
                       /\ pc' = "k_prompt"
                  [] o = "EOF" ->
                       /\ UNCHANGED <<state, out>>
                       /\ Handlers("EOF")

\* index = gdb.expect(breakpoint_patterns, timeout=20): TIMEOUT is one of
\* the patterns (index 2), so it is returned and not raised; the code then
\* prints gdb.before and raises Exception.
KFault ==
    /\ pc = "k_fault"
    /\ UNCHANGED <<mode, qemu, closes, ioVars, shellReady, interrupted,
                   evVars, apiVars, i, dbg>>
    /\ LET ps == <<{HitVector}, {HitThread}>>
           k == Found(out, ps)
       IN  \E o \in GdbOutcomes(out, ps) :
             /\ GdbWait(o)
             /\ CASE o = "match" ->
                       /\ NoRaise
                       /\ out' = Rest(out, k)
                       /\ state' = "FaultHit"
                       /\ pc' = "k_prompt"
                  [] o = "TIMEOUT" ->
                       /\ state' = "BreakpointNotHit"
                       /\ UNCHANGED out
                       /\ raised' = [kind |-> "Exception",
                                     by |-> "run_debugger"]
                       /\ report' = {"gdb"}
                       /\ pc' = "cleanup"
                  [] o = "EOF" ->
                       /\ UNCHANGED <<state, out>>
                       /\ Handlers("EOF")

\* Variant: 'bt' is sent right after the notification, without the wait
\* for the prompt.
KPrompt_NoWait ==
    /\ pc = "k_prompt"
    /\ UNCHANGED <<mode, gdb, qemu, reads, closes, qemuSent, shellReady,
                   interrupted, state, evVars, apiVars, i, log>>
    /\ NoRaise
    /\ SendTo(out, "bt")
    /\ pc' = "k_bt"

\* gdb.expect_exact("(gdb)", timeout=10) after the notification, then 'bt'.
KPrompt ==
    /\ PromptThenSend("k_prompt", "bt", "k_bt")
    /\ UNCHANGED state

\* Variant: the index is not tested, the text read so far is stored.
KFiltered_NoIndexTest(here, echo, name, reached, cmd, next) ==
    /\ pc = here
    /\ UNCHANGED <<mode, qemu, closes, qemuSent, shellReady, interrupted,
                   debug_data, apiVars, i>>
    /\ LET ps == <<{Prompt}>>
           k == Found(out, ps)
       IN  \E o \in GdbOutcomes(out, ps) :
             /\ GdbWait(o)
             /\ NoRaise
             /\ ev' = (name :> IF o = "match"
                                 THEN FilterEcho(Before(out, k), echo)
                                 ELSE <<>>) @@ ev
             /\ state' = reached
             /\ SendTo(IF o = "match" THEN Rest(out, k) ELSE out, cmd)
             /\ pc' = next

\* index = gdb.expect_exact(["(gdb)", EOF, TIMEOUT], timeout=10) where any
\* index but 0 raises Exception; the capture is filtered of blank lines and
\* of the echo and stored under name; then cmd is sent.
KFiltered(here, echo, name, reached, cmd, next) ==
    /\ pc = here
    /\ UNCHANGED <<mode, qemu, closes, qemuSent, shellReady, interrupted,
                   debug_data, apiVars, i>>
    /\ LET ps == <<{Prompt}>>
           k == Found(out, ps)
       IN  \E o \in GdbOutcomes(out, ps) :
             /\ GdbWait(o)
             /\ IF o # "match"
                   THEN /\ UNCHANGED <<sent, ev, state, gdbVars>>
                        /\ Handlers("Exception")
                   ELSE /\ NoRaise
                        /\ ev' = (name :> FilterEcho(Before(out, k), echo))
                                 @@ ev
                        /\ state' = reached
                        /\ SendTo(Rest(out, k), cmd)
                        /\ pc' = next

KBt ==
    KFiltered("k_bt", "bt", "backtrace_text", "BacktraceCaptured",
              "info registers", "k_regs")

KRegs ==
    KFiltered("k_regs", "info registers", "registers_text",
              "RegistersCaptured", "info frame 1", "k_frame")

\* re.search(r'saved rip = (0x[0-9a-f]+)', frame_info), on a text whose
\* lines either start with the pattern or do not hold it: group(1) of the
\* first line that matches, or "" for None.
IsSavedRipLine(l) ==
    /\ Len(l) > Len("saved rip = 0x")
    /\ SubSeq(l, 1, Len("saved rip = 0x")) = "saved rip = 0x"
saved_rip_match(t) ==
    LET hits == SelectSeq(t, IsSavedRipLine)
    IN  IF hits = <<>> THEN ""
        ELSE SubSeq(hits[1], Len("saved rip = ") + 1, Len(hits[1]))

\* Variant: a frame_info without a saved rip ends the capture.
KFrame_AbortsWithoutRip ==
    /\ pc = "k_frame"
    /\ UNCHANGED <<mode, qemu, closes, qemuSent, shellReady, interrupted,
                   state, debug_data, apiVars, i>>
    /\ LET ps == <<{Prompt}>>
           k == Found(out, ps)
       IN  \E o \in GdbOutcomes(out, ps) :
             /\ GdbWait(o)
             /\ IF o # "match"
                   THEN /\ UNCHANGED <<sent, ev, gdbVars>>
                        /\ Handlers(o)
                   ELSE LET frame_info == strip(Before(out, k))
                            saved_rip == saved_rip_match(frame_info)
                        IN  IF saved_rip # ""
                              THEN /\ NoRaise
                                   /\ ev' = ("frame_info" :> frame_info)
                                       @@ ("saved_rip" :> <<saved_rip>>)
                                       @@ ev
                                   /\ SendTo(Rest(out, k),
                                             "info symbol " \o saved_rip)
                                   /\ pc' = "k_symbol"
                              ELSE /\ ev' = ("frame_info" :> frame_info) @@ ev
                                   /\ out' = Rest(out, k)
                                   /\ UNCHANGED <<sent, dbg>>
                                   /\ Handlers("Exception")

\* gdb.expect_exact("(gdb)", timeout=5) after 'info frame 1': frame_info,
\* the search for the saved rip, and either 'info symbol' or the three
\* markers followed by 'frame 0'.
KFrame ==
    /\ pc = "k_frame"
    /\ UNCHANGED <<mode, qemu, closes, qemuSent, shellReady, interrupted,
                   state, debug_data, apiVars, i>>
    /\ LET ps == <<{Prompt}>>
           k == Found(out, ps)
       IN  \E o \in GdbOutcomes(out, ps) :
             /\ GdbWait(o)
             /\ IF o # "match"
                   THEN /\ UNCHANGED <<sent, ev, gdbVars>>
                        /\ Handlers(o)
                   ELSE LET frame_info == strip(Before(out, k))
                            saved_rip == saved_rip_match(frame_info)
                        IN  /\ NoRaise
                            /\ IF saved_rip # ""
                                  THEN /\ ev' = ("frame_info" :> frame_info)
                                           @@ ("saved_rip" :> <<saved_rip>>)
                                           @@ ev
                                       /\ SendTo(Rest(out, k),
                                                 "info symbol " \o saved_rip)
                                       /\ pc' = "k_symbol"
                                  ELSE /\ ev' = ("frame_info" :> frame_info)
                                           @@ ("source_context" :>
                                               <<"Could not extract saved RIP">>)
                                           @@ ("caller_symbol" :> <<"Unknown">>)
                                           @@ ("caller_disassembly" :> <<"N/A">>)
                                           @@ ev
                                       /\ SendTo(Rest(out, k), "frame 0")
                                       /\ pc' = "k_frame0"

\* gdb.expect_exact("(gdb)", timeout=5) whose capture is stored stripped,
\* under name; then cmd is sent.  TIMEOUT and EOF propagate.
KStripped(here, echo, name, cmd, next) ==
    /\ pc = here
    /\ UNCHANGED <<mode, qemu, closes, qemuSent, shellReady, interrupted,
                   state, debug_data, apiVars, i>>
    /\ LET ps == <<{Prompt}>>
           k == Found(out, ps)
       IN  \E o \in GdbOutcomes(out, ps) :
             /\ GdbWait(o)
             /\ IF o # "match"
                   THEN /\ UNCHANGED <<sent, ev, gdbVars>>
                        /\ Handlers(o)
                   ELSE /\ NoRaise
                        /\ ev' = (name :> strip(Before(out, k))) @@ ev
                        /\ SendTo(Rest(out, k), cmd)
                        /\ pc' = next

KSymbol ==
    /\ pc = "k_symbol"
    /\ LET saved_rip == ev["saved_rip"][1]
       IN  KStripped("k_symbol", "info symbol " \o saved_rip,
                     "caller_symbol", "list *" \o saved_rip, "k_list")

KList ==
    /\ pc = "k_list"
    /\ LET saved_rip == ev["saved_rip"][1]
       IN  KStripped("k_list", "list *" \o saved_rip, "source_context",
                     "disassemble " \o saved_rip, "k_disas")

KDisas ==
    /\ pc = "k_disas"
    /\ LET saved_rip == ev["saved_rip"][1]
       IN  KStripped("k_disas", "disassemble " \o saved_rip,
                     "caller_disassembly", "frame 0", "k_frame0")

\* The f-string that builds debug_data: labelled fields in a fixed order.
KernelDocument(e) ==
    << [header |-> "BACKTRACE:", text |-> e["backtrace_text"]],
       [header |-> "REGISTERS:", text |-> e["registers_text"]],
       [header |-> "SAVED RETURN ADDRESS INFO:", text |-> e["frame_info"]],
       [header |-> "CALLING FUNCTION:", text |-> e["caller_symbol"]],
       [header |-> "SOURCE CODE AT CALLING SITE:",
        text |-> e["source_context"]],
       [header |-> "DISASSEMBLY OF CALLING FUNCTION:",
        text |-> e["caller_disassembly"]] >>

\* Entry of get_gemini_analysis: the retry loop starts at attempt 0.
CallAnalysis ==
    /\ calls' = calls + 1
    /\ attempt' = 0
    /\ attempts' = 0
    /\ delays' = <<>>
    /\ last' = "none"
    /\ UNCHANGED <<analysis, patchSaved>>
    /\ pc' = "api"

\* gdb.expect_exact("(gdb)", timeout=5) after 'frame 0', the assembly of
\* debug_data and the call of get_gemini_analysis(debug_data, "kernel").
KFrame0 ==
    /\ pc = "k_frame0"
    /\ UNCHANGED <<mode, qemu, closes, ioVars, shellReady, interrupted, ev, i,
                   dbg>>
    /\ LET ps == <<{Prompt}>>
           k == Found(out, ps)
       IN  \E o \in GdbOutcomes(out, ps) :
             /\ GdbWait(o)
             /\ IF o # "match"
                   THEN /\ UNCHANGED <<state, debug_data, apiVars, out>>
                        /\ Handlers(o)
                   ELSE /\ NoRaise
                        /\ out' = Rest(out, k)
                        /\ state' = "CallSiteCaptured"
                        /\ debug_data' = KernelDocument(ev)
                        /\ CallAnalysis

----------------------------------------------------------------------------
(* run_user_debugger *)

\* The handler 'except Exception as e' that closes run_user_debugger: it
\* prints the error and the traceback, and the function returns normally.
Swallowed(kind) ==
    /\ raised' = [kind |-> kind, by |-> "run_user_debugger"]
    /\ UNCHANGED report
    /\ pc' = "cleanup"

\* gdb.sendline("c") was sent by the router; gdb.expect_exact("Continuing.").
UContinuing ==
    /\ pc = "u_continuing"
    /\ UNCHANGED <<mode, qemu, closes, ioVars, shellReady, interrupted,
                   evVars, apiVars, i, dbg>>
    /\ LET ps == <<{Continuing}>>
           k == Found(out, ps)
       IN  \E o \in GdbOutcomes(out, ps) :
             /\ GdbWait(o)
             /\ IF o # "match"
                   THEN /\ UNCHANGED <<state, out>>
                        /\ Handlers(o)
                   ELSE /\ NoRaise
                        /\ out' = Rest(out, k)
                        /\ state' = "Running"
                        /\ pc' = "u_shell"

\* qemu.expect(r"\$ ", timeout=60), then qemu.sendline("user_crash").
UShell ==
    /\ pc = "u_shell"
    /\ UNCHANGED <<mode, gdb, closes, sent, interrupted, state, evVars,
                   apiVars, i, gdbVars>>
    /\ \E o \in Outcomes(qemu) :
         /\ QemuWait(o)
         /\ IF o # "match"
               THEN /\ UNCHANGED <<shellReady, qemuSent>>
                    /\ Handlers(o)
               ELSE /\ NoRaise
                    /\ shellReady' = TRUE
                    /\ qemuSent' = Append(qemuSent, "user_crash")
                    /\ pc' = "u_begin"

\* Variant: the index is not tested, the timeout counts as a detection.
UBegin_NoIndexTest ==
    /\ pc = "u_begin"
    /\ UNCHANGED <<mode, gdb, closes, ioVars, shellReady, interrupted, evVars,
                   apiVars, i, gdbVars>>
    /\ \E o \in Outcomes(qemu) :
         /\ QemuWait(o)
         /\ IF o = "EOF"
               THEN /\ UNCHANGED state
                    /\ raised' = [kind |-> "EOF", by |-> "run_user_debugger"]
                    /\ UNCHANGED report
                    /\ pc' = "cleanup"
               ELSE /\ NoRaise
                    /\ state' = "CrashReportDetected"
                    /\ pc' = "u_end"

\* index = qemu.expect([begin marker, TIMEOUT], timeout=5): index 1 is the
\* else branch, which reports that no crash was detected and returns.
UBegin ==
    /\ pc = "u_begin"
    /\ UNCHANGED <<mode, gdb, closes, ioVars, shellReady, interrupted, evVars,
                   apiVars, i, gdbVars>>
    /\ \E o \in Outcomes(qemu) :
         /\ QemuWait(o)
         /\ CASE o = "match" ->
                   /\ NoRaise
                   /\ state' = "CrashReportDetected"
                   /\ pc' = "u_end"
              [] o = "TIMEOUT" ->
                   /\ NoRaise
                   /\ state' = "NoCrashDetected"
                   /\ pc' = "cleanup"
              [] o = "EOF" ->
                   /\ UNCHANGED state
                   /\ Swallowed("EOF")

\* What qemu.before can hold when the end marker is matched.
ReportBodies ==
    {<<"trap 0", "RIP: 0x1a2b">>, <<"trap 0", "RIP: 1a2b">>, <<"trap 0">>}

\* re.search(r'RIP:\s+([0-9a-fA-Fx]+)', crash_report): group(1) of the
\* first line that starts with the pattern, or "" for None.
IsRipLine(l) == Len(l) > Len("RIP: ") /\ SubSeq(l, 1, Len("RIP: ")) = "RIP: "
rip_match(t) ==
    LET hits == SelectSeq(t, IsRipLine)
    IN  IF hits = <<>> THEN ""
        ELSE SubSeq(hits[1], Len("RIP: ") + 1, Len(hits[1]))

\* if not rip_addr.startswith('0x'): rip_addr = '0x' + rip_addr
WithPrefix(a) ==
    IF Len(a) >= 2 /\ SubSeq(a, 1, 2) = "0x" THEN a ELSE "0x" \o a

\* qemu.expect("=== END REPORT ===", timeout=2); the crash report, the
\* extraction of RIP, and either Ctrl+C to gdb or the fallback call of
\* get_gemini_analysis(crash_report, "user").
UEnd ==
    /\ pc = "u_end"
    /\ UNCHANGED <<mode, gdb, closes, qemuSent, shellReady, state, i>>
    /\ \E o \in Outcomes(qemu), before \in ReportBodies :
         /\ QemuWait(o)
         /\ IF o # "match"
               THEN /\ UNCHANGED <<sent, interrupted, evVars, apiVars, gdbVars>>
                    /\ Swallowed(o)
               ELSE LET crash_report ==
                            <<"=== XV6 USER CRASH REPORT ===">> \o before
                                \o <<"=== END REPORT ===">>
                        rip == rip_match(crash_report)
                    IN  /\ NoRaise
                        /\ IF rip # ""
                              THEN /\ ev' = ("crash_report" :> crash_report)
                                       @@ ("rip_addr" :> <<WithPrefix(rip)>>)
                                       @@ ev
                                   /\ SendTo(out, "\\x03")
                                   /\ interrupted' = TRUE
                                   /\ pc' = "u_int"
                                   /\ UNCHANGED <<debug_data, apiVars>>
                              ELSE /\ ev' = ("crash_report" :> crash_report)
                                             @@ ev
                                   /\ debug_data' =
                                        <<[header |-> "", text |-> crash_report]>>
                                   /\ CallAnalysis
                                   /\ UNCHANGED <<sent, interrupted, gdbVars>>

\* Variant: the wait after Ctrl+C is issued on the emulator handle.
UInt_OnQemu ==
    /\ pc = "u_int"
    /\ UNCHANGED <<mode, gdb, closes, qemuSent, shellReady, interrupted,
                   state, evVars, apiVars, report>>
    /\ \E o \in Outcomes(qemu) :
         /\ QemuWait(o)
         /\ raised' = IF o # "match" THEN [kind |-> o, by |-> "except_380"]
                       ELSE raised
    /\ SendTo(out, "file _user_crash")
    /\ i' = 0
    /\ pc' = "u_file"

\* try: gdb.expect_exact("(gdb)", timeout=3) / except: pass, then
\* gdb.sendline("file _user_crash") and the entry of the for loop.  The
\* write to a child that has exited succeeds or raises OSError.
UInt ==
    /\ pc = "u_int"
    /\ UNCHANGED <<mode, qemu, closes, qemuSent, shellReady, interrupted,
                   state, evVars, apiVars, report>>
    /\ LET ps == <<{Prompt}>>
           k == Found(out, ps)
       IN  \E o \in GdbOutcomes(out, ps) :
             /\ GdbWait(o)
             /\ \/ /\ raised' = IF o # "match"
                                   THEN [kind |-> o, by |-> "except_380"]
                                   ELSE raised
                   /\ SendTo(IF o = "match" THEN Rest(out, k) ELSE out,
                             "file _user_crash")
                   /\ i' = 0
                   /\ pc' = "u_file"
                \/ /\ o = "EOF"
                   /\ raised' = [kind |-> "OSError",
                                 by |-> "run_user_debugger"]
                   /\ UNCHANGED <<sent, gdbVars, i>>
                   /\ pc' = "cleanup"

\* One iteration of 'for i in range(2)': gdb.expect of the two questions,
\* the prompt and TIMEOUT, timeout=3.  EOF is not caught in the loop.
UFile ==
    /\ pc = "u_file"
    /\ UNCHANGED <<mode, qemu, closes, qemuSent, shellReady, interrupted,
                   state, evVars, apiVars>>
    /\ LET ps == <<{FileQ}, {LoadQ}, {Prompt}>>
           k == Found(out, ps)
           index == IF k = 0 THEN 3 ELSE IndexOf(ps, out[k].mark)
       IN  \E o \in GdbOutcomes(out, ps) :
             /\ GdbWaitAt(o, IF o = "match" THEN out[k].mark ELSE o)
             /\ CASE o = "match" /\ index \in {0, 1} ->
                       /\ NoRaise
                       /\ SendTo(Rest(out, k), "y")
                       /\ i' = i + 1
                       /\ pc' = IF i + 1 < 2 THEN "u_file" ELSE "u_sym"
                  [] o = "match" /\ index = 2 ->
                       /\ NoRaise
                       /\ out' = Rest(out, k)
                       /\ UNCHANGED <<sent, i, dbg>>
                       /\ pc' = "u_sym"
                  [] o = "TIMEOUT" ->
                       /\ NoRaise
                       /\ UNCHANGED <<sent, i, gdbVars>>
                       /\ pc' = "u_sym"
                  [] o = "EOF" ->
                       /\ UNCHANGED <<sent, i, gdbVars>>
                       /\ Swallowed("EOF")

\* try: gdb.expect_exact("(gdb)", timeout=2) / except: pass, then
\* 'list *<rip_addr>'.  The write to a child that has exited succeeds or
\* raises OSError.
USym ==
    /\ pc = "u_sym"
    /\ UNCHANGED <<mode, qemu, closes, qemuSent, shellReady, interrupted,
                   evVars, apiVars, report, i>>
    /\ LET ps == <<{Prompt}>>
           k == Found(out, ps)
       IN  \E o \in GdbOutcomes(out, ps) :
             /\ GdbWait(o)
             /\ \/ /\ raised' = IF o # "match"
                                   THEN [kind |-> o, by |-> "except_411"]
                                   ELSE raised
                   /\ SendTo(IF o = "match" THEN Rest(out, k) ELSE out,
                             "list *" \o ev["rip_addr"][1])
                   /\ state' = "SymbolsLoaded"
                   /\ pc' = "u_list"
                \/ /\ o = "EOF"
                   /\ raised' = [kind |-> "OSError",
                                 by |-> "run_user_debugger"]
                   /\ UNCHANGED <<sent, gdbVars>>
                   /\ state' = "SymbolsLoaded"
                   /\ pc' = "cleanup"

\* gdb.expect_exact("(gdb)", timeout=5) whose capture is stored stripped,
\* under name; then cmd is sent.  Any exception lands in the handler of
\* run_user_debugger.
UStripped(here, echo, name, cmd, next) ==
    /\ pc = here
    /\ UNCHANGED <<mode, qemu, closes, qemuSent, shellReady, interrupted,
                   state, debug_data, apiVars, i>>
    /\ LET ps == <<{Prompt}>>
           k == Found(out, ps)
       IN  \E o \in GdbOutcomes(out, ps) :
             /\ GdbWait(o)
             /\ IF o # "match"
                   THEN /\ UNCHANGED <<sent, ev, gdbVars>>
                        /\ Swallowed(o)
                   ELSE /\ NoRaise
                        /\ ev' = (name :> strip(Before(out, k))) @@ ev
                        /\ SendTo(Rest(out, k), cmd)
                        /\ pc' = next

UList ==
    /\ pc = "u_list"
    /\ LET rip_addr == ev["rip_addr"][1]
       IN  UStripped("u_list", "list *" \o rip_addr, "source_at_fault",
                     "disassemble " \o rip_addr, "u_disas")

UDisas ==
    /\ pc = "u_disas"
    /\ LET rip_addr == ev["rip_addr"][1]
       IN  UStripped("u_disas", "disassemble " \o rip_addr, "disassembly",
                     "info symbol " \o rip_addr, "u_symbol")

\* The f-string that builds enhanced_report.
UserDocument(e) ==
    << [header |-> "", text |-> e["crash_report"]],
       [header |-> "SOURCE CODE AT FAULT (RIP: " \o e["rip_addr"][1] \o "):",
        text |-> e["source_at_fault"]],
       [header |-> "FUNCTION SYMBOL:", text |-> e["symbol_info"]],
       [header |-> "DISASSEMBLY:", text |-> e["disassembly"]] >>

\* gdb.expect_exact("(gdb)", timeout=5) after 'info symbol', the assembly
\* of enhanced_report and the call get_gemini_analysis(.., "user").
USymbol ==
    /\ pc = "u_symbol"
    /\ UNCHANGED <<mode, qemu, closes, ioVars, shellReady, interrupted, i,
                   dbg>>
    /\ LET ps == <<{Prompt}>>
           k == Found(out, ps)
       IN  \E o \in GdbOutcomes(out, ps) :
             /\ GdbWait(o)
             /\ IF o # "match"
                   THEN /\ UNCHANGED <<state, evVars, apiVars, out>>
                        /\ Swallowed(o)
                   ELSE /\ NoRaise
                        /\ out' = Rest(out, k)
                        /\ ev' = ("symbol_info" :> strip(Before(out, k)))
                                 @@ ev
                        /\ state' = "SourceCaptured"
                        /\ debug_data' = UserDocument(ev')
                        /\ CallAnalysis

----------------------------------------------------------------------------
(* get_gemini_analysis *)

\* schema["required"] of the two modes.
Required(m) ==
    IF m = "kernel"
      THEN {"rootCause", "faultyFunction", "faultyLine", "severity",
            "analysisSummary", "suggestedFixPatch"}
      ELSE {"rootCause", "trapType", "faultyLine", "explanation",
            "suggestedFix"}

\* A JSON object with the given keys, as json.loads returns it.
Object(keys) == [kind |-> "object", keys |-> keys, msg |-> <<>>]

\* What json.loads(json_text) can return for a 200 response: the object
\* the schema asks for, the same with one required key missing, with an
\* 'error' key added, an object with the 'error' key only, the empty
\* object, or a JSON value that is not an object.
Payloads(m) ==
    {Object(Required(m))}
        \cup {Object(Required(m) \ {k}) : k \in Required(m)}
        \cup {Object(Required(m) \cup {"error"}), Object({"error"}),
              Object({})}
        \cup {[kind |-> "other", keys |-> {}, msg |-> <<>>]}

\* {"error": f"Failed to get analysis after {max_retries} attempts: {e}"}
FailedAfter ==
    [kind |-> "object", keys |-> {"error"},
     msg |-> <<"Failed to get analysis after", ToString(max_retries),
               "attempts">>]

\* {"error": "Exhausted all API retries."}
Exhausted ==
    [kind |-> "object", keys |-> {"error"},
     msg |-> <<"Exhausted all API retries.">>]

\* Variant: a delay that grows linearly.
Backoff_Linear(a) == a + 1

\* time.sleep(2**attempt)
Backoff(a) == 2 ^ a

\* One time.sleep call: the attempt (1-indexed) it follows, its argument
\* and the line of the call.
Sleep(a, line) == [after |-> a + 1, secs |-> Backoff(a), line |-> line]

\* Variant: the except clause re-raises on the last attempt.
ReturnFailed_Raises ==
    /\ UNCHANGED analysis
    /\ IF mode = "kernel"
         THEN Handlers("Exception")
         ELSE /\ raised' = [kind |-> "Exception", by |-> "run_user_debugger"]
              /\ UNCHANGED report
              /\ pc' = "cleanup"

\* The except clause on the last attempt:
\* return {"error": f"Failed to get analysis after ..."}
ReturnFailed ==
    /\ analysis' = FailedAfter
    /\ pc' = "print"
    /\ NoRaise

\* One iteration of 'for attempt in range(max_retries)': requests.post and
\* what follows it.  The outcome of the request is "status" (a status code
\* other than 200), "body" (response.json(), the nested lookup or
\* json.loads raises), "transport" (requests.post raises) or "ok".
ApiAttempt ==
    /\ pc = "api"
    /\ UNCHANGED <<mode, gdb, qemu, reads, closes, ioVars, shellReady,
                   interrupted, state, evVars, calls, patchSaved, i, log,
                   gdbVars>>
    /\ attempts' = attempts + 1
    /\ \E outcome \in {"status", "body", "transport", "ok"},
          parsed_analysis \in Payloads(mode) :
         /\ last' = outcome
         /\ CASE outcome = "status" ->
                   /\ NoRaise
                   /\ delays' = Append(delays, Sleep(attempt, 141))
                   /\ attempt' = attempt + 1
                   /\ IF attempt + 1 < max_retries
                         THEN /\ pc' = "api"
                              /\ UNCHANGED analysis
                         ELSE /\ pc' = "print"
                              /\ analysis' = Exhausted
              [] outcome \in {"body", "transport"} ->
                   IF attempt < max_retries - 1
                     THEN /\ NoRaise
                          /\ delays' = Append(delays, Sleep(attempt, 153))
                          /\ attempt' = attempt + 1
                          /\ pc' = "api"
                          /\ UNCHANGED analysis
                     ELSE /\ ReturnFailed
                          /\ UNCHANGED <<delays, attempt>>
              [] outcome = "ok" ->
                   /\ NoRaise
                   /\ analysis' = parsed_analysis
                   /\ pc' = "print"
                   /\ UNCHANGED <<delays, attempt>>

\* Keys of the analysis that the caller reads with analysis[...].
Subscripted(m) ==
    IF m = "kernel"
      THEN {"rootCause", "faultyFunction", "faultyLine", "severity",
            "analysisSummary", "suggestedFixPatch"}
      ELSE {"rootCause", "explanation", "suggestedFix"}

\* The code that follows the call in run_kernel_debugger and in
\* run_user_debugger: the test "error" in analysis, the prints and the
\* patch file.  A value that is not an object raises TypeError, a missing
\* key raises KeyError: in kernel mode the exception reaches run_debugger,
\* in user mode the handler of run_user_debugger.
PrintAnalysis ==
    /\ pc = "print"
    /\ UNCHANGED <<mode, gdb, qemu, reads, closes, ioVars, shellReady,
                   interrupted, evVars, calls, analysis, i, log, gdbVars>>
    /\ attempt' = 0
    /\ attempts' = 0
    /\ delays' = <<>>
    /\ last' = "none"
    /\ IF analysis.kind = "object" /\ "error" \in analysis.keys
         THEN /\ NoRaise
              /\ UNCHANGED <<state, patchSaved>>
              /\ pc' = "cleanup"
         ELSE IF analysis.kind = "object"
                   /\ Subscripted(mode) \subseteq analysis.keys
                THEN /\ NoRaise
                     /\ patchSaved' = TRUE
                     /\ state' = "Done"
                     /\ pc' = "cleanup"
                ELSE /\ UNCHANGED <<state, patchSaved>>
                     /\ IF mode = "kernel" THEN Handlers("Exception")
                                           ELSE Swallowed("Exception")

----------------------------------------------------------------------------
(* run_debugger: the finally clause *)

CountClose(h) == [closes EXCEPT ![h] = @ + 1]

\* qemu_log.close(), the test 'gdb and gdb.isalive()', gdb.sendline("q")
\* and gdb.expect(r"Quit anyway...", timeout=2): a match leads to the
\* answer 'y' and gdb.close(), an exception to the except clause.
CleanupQuit ==
    /\ pc = "cleanup"
    /\ UNCHANGED <<mode, qemu, closes, qemuSent, shellReady, interrupted,
                   state, evVars, apiVars, raised, report, i>>
    /\ IF gdb # "alive"
         THEN /\ pc' = "cleanup_qemu"
              /\ UNCHANGED <<gdb, reads, sent, log, gdbVars>>
         ELSE \E r \in Replies(dbg, "q") :
                LET s == out \o r.emit
                    ps == <<{QuitQ}>>
                    k == Found(s, ps)
                IN  \E o \in GdbOutcomes(s, ps) :
                      /\ GdbWait(o)
                      /\ IF o = "match"
                            THEN /\ sent' = sent \o <<"q", "y">>
                                 /\ out' = Rest(s, k)
                                 /\ dbg' = "exited"
                                 /\ pc' = "cleanup_close"
                            ELSE /\ sent' = Append(sent, "q")
                                 /\ out' = s
                                 /\ dbg' = r.to
                                 /\ pc' = "cleanup_force"

\* gdb.close(): it raises when the child does not terminate.
CleanupClose ==
    /\ pc = "cleanup_close"
    /\ UNCHANGED <<mode, qemu, reads, ioVars, shellReady, interrupted, state,
                   evVars, apiVars, raised, report, i, log, gdbVars>>
    /\ closes' = CountClose("gdb")
    /\ \/ /\ gdb' = "dead"
          /\ pc' = "cleanup_qemu"
       \/ /\ UNCHANGED gdb
          /\ pc' = "cleanup_force"

\* except: gdb.close(force=True).  An exception of this call leaves the
\* finally clause and run_debugger.
CleanupForce ==
    /\ pc = "cleanup_force"
    /\ UNCHANGED <<mode, qemu, reads, ioVars, shellReady, interrupted, state,
                   evVars, apiVars, report, i, log, gdbVars>>
    /\ closes' = CountClose("gdb")
    /\ \/ /\ gdb' = "dead"
          /\ pc' = "cleanup_qemu"
          /\ UNCHANGED raised
       \/ /\ gdb = "alive"
          /\ UNCHANGED gdb
          /\ raised' = [kind |-> "Exception", by |-> "uncaught"]
          /\ pc' = "returned"

\* if qemu and qemu.isalive(): qemu.close(force=True)
CleanupQemu ==
    /\ pc = "cleanup_qemu"
    /\ UNCHANGED <<mode, gdb, reads, ioVars, shellReady, interrupted, state,
                   evVars, apiVars, report, i, log, gdbVars>>
    /\ pc' = "returned"
    /\ IF qemu # "alive"
         THEN UNCHANGED <<qemu, closes, raised>>
         ELSE /\ closes' = CountClose("qemu")
              /\ \/ /\ qemu' = "dead"
                    /\ UNCHANGED raised
                 \/ /\ UNCHANGED qemu
                    /\ raised' = [kind |-> "Exception", by |-> "uncaught"]

----------------------------------------------------------------------------

Next ==
    \/ Build \/ SpawnQemu \/ SpawnGdb
    \/ HsFirst \/ HsPending \/ HsAttach \/ HsAttached \/ HsPagination
    \/ HsHeight
    \/ KBreak \/ KContinuing \/ KShell \/ KFault \/ KPrompt \/ KBt \/ KRegs
    \/ KFrame \/ KSymbol \/ KList \/ KDisas \/ KFrame0
    \/ UContinuing \/ UShell \/ UBegin \/ UEnd \/ UInt \/ UFile \/ USym
    \/ UList \/ UDisas \/ USymbol
    \/ ApiAttempt \/ PrintAnalysis
    \/ CleanupQuit \/ CleanupClose \/ CleanupForce \/ CleanupQemu

Spec == Init /\ [][Next]_vars

\* The steps that the program takes by itself within a bounded time: the
\* expiry of the timeout of a wait, the EOF of a wait on a child that has
\* exited, a request that is answered or times out, and every step that
\* is not a wait.  A match and the exit of a child are up to gdb and qemu.
Bounded ==
    /\ Next
    /\ CASE pc \in WaitPcs /\ (IF StreamOf(pc) = "qemu" THEN qemu ELSE gdb)
                                 = "alive" ->
               <<pc, "TIMEOUT">> \in log' \ log
          [] pc = "api" -> post_timeout # NoLimit
          [] OTHER -> TRUE

LiveSpec == Spec /\ WF_vars(Bounded)

----------------------------------------------------------------------------
(* Properties *)

TeardownPcs == {"cleanup", "cleanup_close", "cleanup_force", "cleanup_qemu"}

Range(t) == {t[k] : k \in DOMAIN t}

\* The point after which only the debugger stream may be read: the shell
\* prompt in kernel mode, Ctrl+C in user mode.
HandedOff == IF mode = "kernel" THEN shellReady ELSE interrupted

\* Commands that inspect the stopped target.
IsIntrospection(c) ==
    \/ c \in {"bt", "info registers", "info frame 1", "frame 0"}
    \/ \E prefix \in {"info symbol ", "list *", "disassemble "} :
         Len(c) > Len(prefix) /\ SubSeq(c, 1, Len(prefix)) = prefix

\* Seconds slept between request k - 1 and request k of the current call.
RECURSIVE SleptAfter(_, _)
SleptAfter(t, a) ==
    IF t = <<>> THEN 0
    ELSE (IF Head(t).after = a THEN Head(t).secs ELSE 0)
             + SleptAfter(Tail(t), a)
DelayBefore(k) == SleptAfter(delays, k - 1)

ErrorVariant(a) == a.kind = "object" /\ a.keys = {"error"}
FullReport(a, m) ==
    a.kind = "object" /\ Required(m) \subseteq a.keys /\ "error" \notin a.keys

\* The waits for the gdb prompt that follow the fault or crash notification.
LaterWaits ==
    {"k_prompt", "k_bt", "k_regs", "k_frame", "k_symbol", "k_list", "k_disas",
     "k_frame0", "u_int", "u_file", "u_sym", "u_list", "u_disas", "u_symbol"}

\* C1: when run_debugger has returned without an exception of its own,
\* close has been called exactly once on each subprocess handle that was
\* created.
C1_EachHandleClosedOnce ==
    (pc = "returned" /\ raised.by # "uncaught") =>
        /\ (gdb # "None" => closes.gdb = 1)
        /\ (qemu # "None" => closes.qemu = 1)

\* C2: once the streams are handed off, no step before teardown issues a
\* read on the emulator stream.
C2_NoEmulatorReadAfterHandOff ==
    [][(HandedOff /\ pc \notin TeardownPcs) => reads'.qemu = reads.qemu]_vars

C2_Witness == mode = "user" /\ interrupted /\ pc = "u_symbol" /\ reads.gdb > 9

\* C3: in kernel mode, when the wait for the breakpoint notification times
\* out, no introspection command is ever sent, the evidence is never
\* assembled, the analysis is never called, and control is in the cleanup
\* phase or past it, where close was called on the debugger handle.
C3_NoReproductionIsFatal ==
    <<"k_fault", "TIMEOUT">> \in log =>
        /\ \A c \in Range(sent) : ~IsIntrospection(c)
        /\ debug_data = <<>>
        /\ calls = 0
        /\ pc \in TeardownPcs \cup {"returned"}
        /\ raised.kind = "Exception"
        /\ (pc = "returned" => closes.gdb >= 1)

C3_Witness ==
    /\ <<"k_fault", "TIMEOUT">> \in log
    /\ pc = "returned"
    /\ closes = [gdb |-> 1, qemu |-> 1]

\* C4 as stated: a user-mode session in which the begin marker or the end
\* marker did not arrive in time ends in NoCrashDetected without a call of
\* the analysis.
C4_NoPairIsNoCrashDetected ==
    (/\ mode = "user"
     /\ pc \in TeardownPcs \cup {"returned"}
     /\ \/ <<"u_begin", "TIMEOUT">> \in log
        \/ <<"u_end", "TIMEOUT">> \in log)
        => state = "NoCrashDetected" /\ calls = 0

\* C4 amended: when the begin marker does not arrive the session is in
\* NoCrashDetected with no exception; when the begin marker arrives and
\* the end marker does not, the session stays in CrashReportDetected and
\* the timeout is handled inside run_user_debugger; in both cases the
\* analysis is never called, no command is sent to gdb and no handler of
\* run_debugger runs.
C4_NoPairNeverAnalysed ==
    /\ <<"u_begin", "TIMEOUT">> \in log =>
          /\ state = "NoCrashDetected"
          /\ raised.by \notin {"run_debugger", "run_user_debugger"}
          /\ calls = 0 /\ ~interrupted
          /\ pc \in TeardownPcs \cup {"returned"}
    /\ <<"u_end", "TIMEOUT">> \in log =>
          /\ state = "CrashReportDetected"
          /\ raised.by # "run_debugger"
          /\ calls = 0 /\ ~interrupted
          /\ pc \in TeardownPcs \cup {"returned"}

C4_Witness ==
    /\ <<"u_end", "TIMEOUT">> \in log
    /\ pc = "returned"
    /\ raised = [kind |-> "TIMEOUT", by |-> "run_user_debugger"]

\* C5: every step of the retry loop issues one request, never a sixth; a
\* failure of any kind with attempts left leads to another attempt, and a
\* success ends the call with the parsed payload.
C5_AtMostFiveAttempts ==
    [][pc = "api" =>
        /\ attempts' = attempts + 1
        /\ attempts' <= 5
        /\ (last' \in {"status", "body", "transport"} /\ attempts' < 5
               => pc' = "api" /\ analysis' = analysis)
        /\ (last' = "ok" => pc' = "print" /\ analysis' \in Payloads(mode))
        /\ (pc' # "api" => pc' = "print")]_vars

C5_Witness ==
    /\ pc = "print"
    /\ attempts = 5
    /\ last = "ok"
    /\ {d.line : d \in Range(delays)} = {141, 153}

\* C6 as stated: the delays before the attempts issued so far are
\* proportional to 2^(k-1), attempt 1 included.
C6_DelayProportionalFromFirst ==
    \A j, k \in 1..attempts :
        DelayBefore(j) * 2 ^ (k - 1) = DelayBefore(k) * 2 ^ (j - 1)

\* C6 amended: no delay precedes attempt 1; for 2 <= k <= 5 the delay
\* before attempt k is 2^(k-2) seconds, that is 2^(k-1) times the base of
\* half a second, whichever kind of failure preceded.
C6_DelayDoublesFromSecond ==
    /\ attempts >= 1 => DelayBefore(1) = 0
    /\ \A k \in 2..attempts :
          /\ 2 * DelayBefore(k) = 2 ^ (k - 1)
          /\ \A j \in 2..attempts :
                DelayBefore(j) * 2 ^ (k - 1) = DelayBefore(k) * 2 ^ (j - 1)

C6_Witness ==
    /\ attempts = 5
    /\ DelayBefore(5) = 8
    /\ {d.line : d \in {delays[k] : k \in 1..4}} = {141, 153}

\* C7: a call whose last request failed returns the error variant after
\* five requests, without raising; the caller then moves to the cleanup
\* phase without raising.
C7_FailureIsReturned ==
    [][/\ (pc = "api" /\ pc' # "api" /\ last' # "ok" =>
             /\ pc' = "print"
             /\ attempts' = 5
             /\ ErrorVariant(analysis')
             /\ raised' = raised)
       /\ (pc = "print" /\ last # "ok" =>
             pc' = "cleanup" /\ raised' = raised)]_vars

C7_Witness ==
    /\ pc = "cleanup"
    /\ analysis = FailedAfter
    /\ raised.kind = "none"
    /\ calls = 1

\* C8: a call whose five requests all returned a status other than 200
\* returns the error variant with a message that names the count 5.
C8_MessageNamesCount ==
    (/\ pc = "print"
     /\ attempts = 5
     /\ Len(delays) = 5
     /\ \A d \in Range(delays) : d.line = 141)
        => ErrorVariant(analysis) /\ "5" \in Range(analysis.msg)

\* C9: the value returned by get_gemini_analysis is the error variant or
\* a report with every required field of the mode and no error key.
C9_ErrorOrComplete ==
    pc = "print" => ErrorVariant(analysis) \/ FullReport(analysis, mode)

\* C10: a session in which the notification was matched, no stream closed
\* and some later prompt wait timed out still assembles the evidence and
\* calls the analysis.
C10_LaterTimeoutIsSoft ==
    (/\ pc \in TeardownPcs \cup {"returned"}
     /\ <<"k_fault", "match">> \in log \/ <<"u_begin", "match">> \in log
     /\ \E w \in LaterWaits : <<w, "TIMEOUT">> \in log
     /\ \A e \in log : e[2] = "EOF" => e[1] \in TeardownPcs)
        => debug_data # <<>> /\ calls = 1

\* The command whose response a field of the evidence is taken from.
FieldCommand(name) ==
    CASE name = "backtrace_text" -> "bt"
      [] name = "registers_text" -> "info registers"
      [] name = "frame_info" -> "info frame 1"
      [] name = "caller_symbol" -> "info symbol " \o ev["saved_rip"][1]
      [] name = "source_context" -> "list *" \o ev["saved_rip"][1]
      [] name = "caller_disassembly" -> "disassemble " \o ev["saved_rip"][1]
      [] name = "source_at_fault" -> "list *" \o ev["rip_addr"][1]
      [] name = "disassembly" -> "disassemble " \o ev["rip_addr"][1]
      [] name = "symbol_info" -> "info symbol " \o ev["rip_addr"][1]

\* The fields of ev that were read from gdb in this session.
CapturedFields ==
    {name \in DOMAIN ev :
        \/ name \in {"backtrace_text", "registers_text", "frame_info",
                     "source_at_fault", "disassembly", "symbol_info"}
        \/ /\ name \in {"caller_symbol", "source_context",
                        "caller_disassembly"}
           /\ "saved_rip" \in DOMAIN ev}

\* The values a field can take when it holds the response to its command.
OwnCaptures(name) ==
    LET cmd == FieldCommand(name)
        rs == IF name = "frame_info" THEN FrameResponses ELSE Responses(cmd)
    IN  IF name \in {"backtrace_text", "registers_text"}
          THEN {FilterEcho(r, cmd) : r \in rs}
          ELSE {strip(r) : r \in rs}

\* C11: in a session that has called the analysis, every field read from
\* gdb holds the response to the command of that field.
C11_FieldsHoldOwnResponse ==
    calls >= 1 => \A name \in CapturedFields : ev[name] \in OwnCaptures(name)

\* C12: when the first wait of the handshake matched the question about a
\* pending breakpoint, the attach command is sent only after the answer
\* 'y' was sent and the prompt that follows it was matched.
C12_PendingAnsweredBeforeAttach ==
    (<<"hs_first", PendingQ>> \in log /\ AttachCmd \in Range(sent)) =>
        /\ sent[1] = "y"
        /\ <<"hs_pending", "match">> \in log

\* Number of times the line c was written to gdb.
TimesSent(c) == Cardinality({k \in DOMAIN sent : sent[k] = c})

\* C13: when the attach wait matched the refusal string, the attach
\* command was sent once, no pagination command and no command of a
\* capture function was sent, nothing was typed in the guest, the analysis
\* is not called, and control is in the finally clause or past it with
\* the exception handled by run_debugger.
C13_RefusalIsFatal ==
    <<"hs_attach", Refused>> \in log =>
        /\ TimesSent(AttachCmd) = 1
        /\ Range(sent) \subseteq {AttachCmd, "y", "q"}
        /\ qemuSent = <<>>
        /\ ev = EmptyEv
        /\ calls = 0
        /\ raised.kind = "Exception"
        /\ pc \in TeardownPcs \cup {"returned"}

C13_Witness ==
    /\ <<"hs_attach", Refused>> \in log
    /\ pc = "returned"
    /\ raised = [kind |-> "Exception", by |-> "run_debugger"]
    /\ closes = [gdb |-> 1, qemu |-> 1]

KernelFields ==
    {"backtrace_text", "registers_text", "frame_info", "caller_symbol",
     "source_context", "caller_disassembly"}

\* C14: in kernel mode, when the notification was matched and the command
\* sequence ran to the assembly of debug_data, each of the six fields of
\* the evidence is non-empty.
C14_SixFieldsNonEmpty ==
    (mode = "kernel" /\ state = "CallSiteCaptured") =>
        \A name \in KernelFields : ev[name] # <<>>

\* C15: when an exception of the session has been handled by run_debugger
\* (refusal, timeout of the wait for the notification, a propagated
\* TIMEOUT, EOF, any other exception), the last output of both streams,
\* gdb and qemu, has been printed.
C15_BothStreamsReported ==
    (raised.by = "run_debugger" /\ gdb # "None" /\ qemu # "None") =>
        report = {"gdb", "qemu"}

\* C16: when run_debugger has returned with the emulator still alive,
\* qemu.close(force=True) has been called, whatever the outcome of the
\* shutdown of gdb was.
C16_TeardownReachesEmulator ==
    (pc = "returned" /\ qemu = "alive") => closes.qemu >= 1

\* Some wait of the handshake or of a capture function has ended with EOF.
StreamClosed == \E e \in log : e[2] = "EOF" /\ e[1] \notin TeardownPcs

\* C17: the step in which a wait ends with EOF, and every step after it,
\* captures no evidence, does not call the analysis and leads to the
\* finally clause; the two waits of run_user_debugger whose exceptions are
\* swallowed lead to the next wait first, which then leads there.
C17_StreamClosedAborts ==
    [][StreamClosed' =>
          /\ ev' = ev
          /\ debug_data' = debug_data
          /\ calls' = calls
          /\ pc' \in TeardownPcs \cup {"returned"}
                 \cup (IF StreamClosed THEN {} ELSE {"u_file", "u_list"})]_vars

C17_Witness ==
    /\ <<"u_int", "EOF">> \in log
    /\ <<"u_file", "EOF">> \in log
    /\ raised = [kind |-> "EOF", by |-> "run_user_debugger"]
    /\ calls = 0
    /\ pc = "returned"

\* C18: when the attach wait has matched the idle prompt, the wait that
\* follows it finds a prompt in the output of gdb.
C18_NoWaitForAbsentPrompt ==
    (pc = "hs_attached" /\ <<"hs_attach", Prompt>> \in log) =>
        Found(out, <<{Prompt}>>) # 0

\* C19: in user mode, when no wait of the confirmation loop has timed out,
\* gdb is not asking a question at the time the first 'list' command has
\* been written to it.
C19_QuestionsAnsweredBeforeList ==
    (/\ pc = "u_list"
     /\ gdb = "alive"
     /\ <<"u_file", "TIMEOUT">> \notin log)
        => dbg \notin {"askFile", "askLoad"}

\* The response to 'info frame 1' was stored and holds no saved rip.
NoSavedRip ==
    /\ mode = "kernel"
    /\ "frame_info" \in DOMAIN ev
    /\ saved_rip_match(ev["frame_info"]) = ""

IsAddressCommand(c) ==
    \E prefix \in {"info symbol ", "list *", "disassemble "} :
        Len(c) > Len(prefix) /\ SubSeq(c, 1, Len(prefix)) = prefix

\* C20: in kernel mode, when frame_info holds no saved rip, none of the
\* three address commands is ever sent, the three fields hold their
\* markers, 'frame 0' has been sent without an exception, and once the
\* prompt after 'frame 0' is matched debug_data has been assembled from
\* these fields and the analysis has been called once.
C20_MissingRipIsTolerated ==
    NoSavedRip =>
        /\ \A c \in Range(sent) : ~IsAddressCommand(c)
        /\ {"source_context", "caller_symbol", "caller_disassembly"}
               \subseteq DOMAIN ev
        /\ ev["source_context"] = <<"Could not extract saved RIP">>
        /\ ev["caller_symbol"] = <<"Unknown">>
        /\ ev["caller_disassembly"] = <<"N/A">>
        /\ TimesSent("frame 0") = 1
        /\ (pc = "k_frame0" => raised.kind = "none")
        /\ calls <= 1
        /\ (<<"k_frame0", "match">> \in log =>
               debug_data = KernelDocument(ev) /\ calls = 1)

C20_Witness ==
    /\ NoSavedRip
    /\ <<"k_frame0", "match">> \in log
    /\ calls = 1
    /\ debug_data[4].text = <<"Unknown">>
    /\ pc = "print"

\* The commands of run_kernel_debugger that follow the notification, in the
\* order of the code, for the captured fields e.
KernelOrder(e) ==
    <<"bt", "info registers", "info frame 1">>
        \o (IF "saved_rip" \in DOMAIN e
              THEN <<"info symbol " \o e["saved_rip"][1],
                     "list *" \o e["saved_rip"][1],
                     "disassemble " \o e["saved_rip"][1]>>
              ELSE <<>>)
        \o <<"frame 0">>

IsPrefix(s, t) == Len(s) <= Len(t) /\ s = SubSeq(t, 1, Len(s))

\* C21: in kernel mode the introspection commands written to gdb are a
\* prefix of the fixed order; a step that writes one has matched a prompt
\* in that step, the prompt after the notification has been matched
\* before, and the response to the new command is the only output of gdb
\* that is not consumed.
C21_OneCommandAtATime ==
    [][mode = "kernel" =>
          /\ IsPrefix(SelectSeq(sent', IsIntrospection), KernelOrder(ev'))
          /\ (sent' # sent /\ IsIntrospection(sent'[Len(sent')]) =>
                /\ <<"k_fault", "match">> \in log
                /\ <<"k_prompt", "match">> \in log'
                /\ <<pc, "match">> \in log' \ log
                /\ Len(out') <= 1)]_vars

C21_Witness ==
    /\ mode = "kernel"
    /\ "saved_rip" \in DOMAIN ev
    /\ SelectSeq(sent, IsIntrospection) = KernelOrder(ev)
    /\ Len(KernelOrder(ev)) = 7
    /\ pc = "api"

\* C22: no field read from gdb holds the echoed line of the command that
\* the field is the response to.
C22_NoEchoInFields ==
    \A name \in CapturedFields : FieldCommand(name) \notin Range(ev[name])

\* C23: every session returns, and a session that has spawned qemu passes
\* through the finally clause, when gdb, qemu and the analysis service are
\* free never to produce anything.
C23_EverySessionReturns ==
    /\ <>(pc = "returned")
    /\ (pc = "spawn_gdb") ~> (pc = "cleanup")

C23_Witness ==
    /\ pc = "returned"
    /\ <<"k_continuing", "TIMEOUT">> \in log
    /\ <<"cleanup", "TIMEOUT">> \in log
    /\ closes.qemu = 1

\* C24: when get_gemini_analysis returns, no sleep was taken after the
\* last request of the call, and the sleeps of the call are fewer than its
\* requests.
C24_FewerDelaysThanAttempts ==
    pc = "print" =>
        /\ \A d \in Range(delays) : d.after < attempts
        /\ Len(delays) < attempts

====
